---- MODULE Spec2Model ----
(***************************************************************************)
(* Model of the LLM-as-a-judge harness: src/judge.py (prompt rendering,    *)
(* the backend call with its error capture, the regular-expression score   *)
(* extractors) and src/logger.py (the CSV evaluation log).                 *)
(*                                                                         *)
(* A text is a sequence of tokens.  A token is either one character        *)
(* (" ", ":", "*", "-", "\n", a digit, or the letter "x" standing for any   *)
(* other character) or one word of a label.  No word is a substring of     *)
(* another word, so matching a literal of a pattern token by token is      *)
(* matching it character by character.                                     *)
(***************************************************************************)
EXTENDS Integers, Sequences, FiniteSets, TLC

VARIABLES
    text,       \* SpecExtract: the text handed to the extractors
    got,        \* SpecExtract: <<the five values returned>>, <<>> before the call
    pc,         \* SpecJudge: position inside evaluate_with_gemini
    args,       \* SpecJudge: <<question, answer, model_name, temperature>>
    prompt,     \* SpecJudge: local variable prompt
    backend,    \* SpecJudge: the requests the backend has received in this invocation
    raised,     \* SpecJudge: the exception in flight (<<>> when none)
    result,     \* SpecJudge: the returned 3-tuple (<<>> before the return)
    file,       \* SpecLog, SpecRace: evaluations.csv
    appended,   \* SpecLog, SpecRace: the rows handed to log_evaluation, in call order
    clock,      \* SpecLog, SpecRace: datetime.now(), in seconds
    proc,       \* SpecRace: per process, position and locals of log_evaluation
    trace,      \* SpecRace: the accesses to evaluations.csv, in order
    history     \* SpecLog: <<what get_evaluation_history returned>>, <<>> before

vars == <<text, got, pc, args, prompt, backend, raised, result,
          file, appended, clock, proc, trace, history>>

(***************************************************************************)
(* Bounds of the model.                                                    *)
(***************************************************************************)
MaxSegs == 2        \* labelled lines in one response text
MaxRatingSegs == 3  \* labelled lines in one text given to extract_rating alone
MaxLogs == 3        \* log_evaluation calls in one run

(***************************************************************************)
(* Optional[int]: None is the empty sequence, the integer n is <<n>>.      *)
(***************************************************************************)
None == <<>>
Some(n) == <<n>>

(***************************************************************************)
(* Characters and re.IGNORECASE.                                           *)
(***************************************************************************)
Digits == {"0", "1", "3", "5", "7"}

DigitVal(c) ==
    CASE c = "0" -> 0
      [] c = "1" -> 1
      [] c = "3" -> 3
      [] c = "5" -> 5
      [] c = "7" -> 7

\* \s replaced by a literal space
WhitespaceNoBreak == {" "}

\* \s of a str pattern
Whitespace == {" ", "\n"}

\* case folding of re.IGNORECASE: both the pattern and the text are folded
Fold(tok) ==
    CASE tok = "Total" -> "total"
      [] tok = "Score" -> "score"
      [] tok = "Rating" -> "rating"
      [] tok = "Relevance" -> "relevance"
      [] tok = "Clarity" -> "clarity"
      [] tok = "Consistency" -> "consistency"
      [] tok = "Creativity" -> "creativity"
      [] tok = "/Innovation" -> "/innovation"
      [] OTHER -> tok

(***************************************************************************)
(* The patterns.  Each is a literal label (with, for creativity, the       *)
(* optional group spelled out as two alternatives), then [cls]*, \*?\*?,   *)
(* \s*, (\d{1,2}).                                                         *)
(***************************************************************************)
TotalCls == {":"} \cup Whitespace       \* [:\s]
DimCls == {":", "-"} \cup Whitespace     \* [:\s-]

PatTotalScore == [alts |-> {<<"Total", " ", "Score">>}, cls |-> TotalCls]
PatTotalRating == [alts |-> {<<"Total", " ", "Rating">>}, cls |-> TotalCls]
PatRating == [alts |-> {<<"Rating">>}, cls |-> TotalCls]
PatScore == [alts |-> {<<"Score">>}, cls |-> TotalCls]

\* the list with the bare labels tried before the Total ones
patternsBareFirst == <<PatRating, PatScore, PatTotalScore, PatTotalRating>>

\* the list without its last entry
patternsNoScore == <<PatTotalScore, PatTotalRating, PatRating>>

\* patterns of extract_rating, in the order of the list
patterns == <<PatTotalScore, PatTotalRating, PatRating, PatScore>>

PatRelevance == [alts |-> {<<"Relevance", " ", "Score">>}, cls |-> DimCls]
PatClarity == [alts |-> {<<"Clarity", " ", "Score">>}, cls |-> DimCls]
PatConsistency == [alts |-> {<<"Consistency", " ", "Score">>}, cls |-> DimCls]
PatCreativity ==
    [alts |-> {<<"Creativity", "/Innovation", " ", "Score">>,
               <<"Creativity", " ", "Score">>},
     cls |-> DimCls]

(***************************************************************************)
(* The regular-expression engine, for patterns of the shape above.         *)
(***************************************************************************)
\* the literal lab matches t at position i
LiteralAt(t, i, lab) ==
    /\ i + Len(lab) - 1 <= Len(t)
    /\ \A k \in 1..Len(lab) : Fold(t[i + k - 1]) = Fold(lab[k])

\* X* (greedy): the first position from i on whose character is not in S
RECURSIVE SkipWhile(_, _, _)
SkipWhile(t, i, S) ==
    IF i <= Len(t) /\ t[i] \in S THEN SkipWhile(t, i + 1, S) ELSE i

\* \*?\*? (greedy): past at most two asterisks
SkipStars(t, i) ==
    IF i <= Len(t) /\ t[i] = "*"
    THEN IF i + 1 <= Len(t) /\ t[i + 1] = "*" THEN i + 2 ELSE i + 1
    ELSE i

\* (\d{1,2}) at position c: the one or two digits there, as int() reads them
Capture(t, c) ==
    IF c + 1 <= Len(t) /\ t[c + 1] \in Digits
    THEN 10 * DigitVal(t[c]) + DigitVal(t[c + 1])
    ELSE DigitVal(t[c])

\* where the group would start when the label ends just before position j
GroupStart(p, t, j) ==
    SkipWhile(t, SkipStars(t, SkipWhile(t, j, p.cls)), Whitespace)

\* the pattern matches with its label starting at position i
MatchesAt(p, t, i) ==
    \E lab \in p.alts :
        /\ LiteralAt(t, i, lab)
        /\ LET c == GroupStart(p, t, i + Len(lab))
           IN  c <= Len(t) /\ t[c] \in Digits

\* int(match.group(1)) of the match at position i
GroupAt(p, t, i) ==
    LET lab == CHOOSE l \in p.alts : LiteralAt(t, i, l)
    IN  Capture(t, GroupStart(p, t, i + Len(lab)))

\* re.search: the leftmost match; None, or Some(int(match.group(1)))
Search(p, t) ==
    LET hits == {i \in 1..Len(t) : MatchesAt(p, t, i)}
    IN  IF hits = {} THEN None
        ELSE Some(GroupAt(p, t, CHOOSE i \in hits : \A k \in hits : i <= k))

\* the range test dropped
InRangeAny(n) == TRUE

\* 1 <= rating <= 10
InRange(n) == 1 <= n /\ n <= 10

(***************************************************************************)
(* The extractors.                                                         *)
(***************************************************************************)
\* the for loop of extract_rating from pattern number k on
RECURSIVE RatingFrom(_, _)
RatingFrom(t, k) ==
    IF k > Len(patterns) THEN None
    ELSE LET m == Search(patterns[k], t)
         IN  IF m # None /\ InRange(m[1]) THEN m
             ELSE RatingFrom(t, k + 1)

extract_rating(t) == RatingFrom(t, 1)

\* the body without its range test
ExtractOneUnchecked(p, t) == Search(p, t)

\* the body shared by the four per-dimension extractors
ExtractOne(p, t) ==
    LET m == Search(p, t)
    IN  IF m # None /\ InRange(m[1]) THEN m ELSE None

extract_relevance_score(t) == ExtractOne(PatRelevance, t)
extract_clarity_score(t) == ExtractOne(PatClarity, t)
extract_consistency_score(t) == ExtractOne(PatConsistency, t)
extract_creativity_score(t) == ExtractOne(PatCreativity, t)

\* the dictionary built at lines 102-108
Scores(t) ==
    [total |-> extract_rating(t),
     relevance |-> extract_relevance_score(t),
     clarity |-> extract_clarity_score(t),
     consistency |-> extract_consistency_score(t),
     creativity |-> extract_creativity_score(t)]

Fields == {"total", "relevance", "clarity", "consistency", "creativity"}

(***************************************************************************)
(* Response texts: labelled lines, each a label followed by a tail (the    *)
(* separator and the value), joined by line breaks.                        *)
(***************************************************************************)
LabelTotalScore == <<"Total", " ", "Score">>
LabelTotalRating == <<"Total", " ", "Rating">>
LabelRating == <<"Rating">>
LabelRelevance == <<"Relevance", " ", "Score">>
LabelClarity == <<"Clarity", " ", "Score">>
LabelConsistency == <<"Consistency", " ", "Score">>
LabelCreativity == <<"Creativity", " ", "Score">>
LabelCreativityInnovation == <<"Creativity", "/Innovation", " ", "Score">>

TotalLabels == {LabelTotalScore, LabelTotalRating, LabelRating}
DimLabels ==
    {LabelRelevance, LabelClarity, LabelConsistency, LabelCreativity,
     LabelCreativityInnovation}

TailTexts ==
    {<<":", " ", "7">>,                     \* ": 7"
     <<":", " ", "1", "5">>,                \* ": 15"
     <<":", " ", "0">>,                     \* ": 0"
     <<":", "*", "*", " ", "1", "0">>,      \* ":** 10"
     <<":", "\n", "7">>,                    \* ":", line break, "7"
     <<":", " ", "x">>}                     \* ": " and no number

\* the lines whose label and number a dash separates, one in lower case
DashLines ==
    {<<"relevance", " ", "score", " ", "-", " ", "5">>,
     LabelTotalScore \o <<" ", "-", " ", "5">>}

Lines ==
    {l \o tl : l \in TotalLabels \cup DimLabels, tl \in TailTexts} \cup DashLines

\* the lines of the longer texts given to extract_rating alone
RatingTailTexts ==
    {<<":", " ", "7">>, <<":", " ", "3">>, <<":", " ", "1", "5">>,
     <<":", "*", "*", " ", "1", "0">>, <<":", " ", "x">>}

RatingLines ==
    {l \o tl : l \in TotalLabels \cup {LabelRelevance}, tl \in RatingTailTexts}

\* the texts of at most n lines drawn from L
RECURSIVE TextsOf(_, _)
TextsOf(L, n) ==
    IF n = 0 THEN {<<>>}
    ELSE LET shorter == TextsOf(L, n - 1)
         IN  shorter \cup
             {IF s = <<>> THEN l ELSE s \o <<"\n">> \o l : s \in shorter, l \in L}

Texts == TextsOf(Lines, MaxSegs)
RatingTexts == TextsOf(RatingLines, MaxRatingSegs)

(***************************************************************************)
(* src/logger.py.  A Python or pandas value is <<"str", s>>, <<"int", n>>, *)
(* <<"float", t>> (t the value in tenths), <<"None">> or <<"nan">>.  A CSV *)
(* file is its header and its rows of cells, each cell a string.           *)
(***************************************************************************)
CSV_HEADER ==
    <<"timestamp", "model", "temperature", "question", "answer", "judge_feedback",
      "judge_prompt", "total_rating(1-10)", "validation_status", "relevance_score",
      "clarity_score", "consistency_score", "creativity_score">>

\* the keys with the total written without its scale
NewRowKeysShortTotal ==
    <<"timestamp", "model", "temperature", "question", "answer", "judge_feedback",
      "judge_prompt", "total_rating", "validation_status", "relevance_score",
      "clarity_score", "consistency_score", "creativity_score">>

\* the keys of the dictionary new_row, in insertion order
NewRowKeys ==
    <<"timestamp", "model", "temperature", "question", "answer", "judge_feedback",
      "judge_prompt", "total_rating(1-10)", "validation_status", "relevance_score",
      "clarity_score", "consistency_score", "creativity_score">>

Range(q) == {q[i] : i \in DOMAIN q}

PyNone == <<"None">>
NaN == <<"nan">>
PyStr(x) == <<"str", x>>
PyInt(n) == <<"int", n>>
PyFloat(tenths) == <<"float", tenths>>

\* now.strftime("%Y-%m-%d %H:%M:%S") at the n-th second of the run
Stamp(n) ==
    CASE n = 1 -> "2025-01-01 10:00:01"
      [] n = 2 -> "2025-01-01 10:00:02"
      [] n = 3 -> "2025-01-01 10:00:03"
      [] n = 4 -> "2025-01-01 10:00:04"
      [] OTHER -> "2025-01-01 10:00:05"

\* str() of the integers and repr() of the floats the model uses
IntText == (4 :> "4") @@ (7 :> "7") @@ (10 :> "10")
FloatText == (5 :> "0.5") @@ (40 :> "4.0") @@ (70 :> "7.0") @@ (100 :> "10.0")

IsIntText(c) == \E n \in DOMAIN IntText : IntText[n] = c
IsFloatText(c) == \E t \in DOMAIN FloatText : FloatText[t] = c
IntOf(c) == CHOOSE n \in DOMAIN IntText : IntText[n] = c
TenthsOf(c) ==
    IF IsIntText(c) THEN 10 * IntOf(c)
    ELSE CHOOSE t \in DOMAIN FloatText : FloatText[t] = c

\* the strings read_csv takes for a missing value (among them the empty cell)
NAStrings == {"", "NA", "N/A", "NULL", "null", "NaN", "nan", "<NA>", "n/a"}

\* to_csv: one value as a cell
CellOf(v) ==
    CASE v[1] = "str" -> v[2]
      [] v[1] = "int" -> IntText[v[2]]
      [] v[1] = "float" -> FloatText[v[2]]
      [] OTHER -> ""

\* read_csv: the dtype inferred for a column of cells
InferDtype(cells) ==
    LET present == {c \in Range(cells) : c \notin NAStrings}
    IN  IF \A c \in present : IsIntText(c)
        THEN IF \E c \in Range(cells) : c \in NAStrings THEN "float64" ELSE "int64"
        ELSE IF \A c \in present : IsIntText(c) \/ IsFloatText(c) THEN "float64"
        ELSE "object"

\* read_csv: one cell of a column of the given dtype
ValueOf(c, dtype) ==
    IF c \in NAStrings THEN NaN
    ELSE CASE dtype = "int64" -> PyInt(IntOf(c))
           [] dtype = "float64" -> PyFloat(TenthsOf(c))
           [] OTHER -> PyStr(c)

\* column j of a file
CellsOf(f, j) == [i \in 1..Len(f.rows) |-> f.rows[i][j]]

\* pd.read_csv(csv_path): a frame is its columns and its rows, each row a
\* function from the column names to values
ReadCsv(f) ==
    [columns |-> f.header,
     rows |-> [i \in 1..Len(f.rows) |->
                 [c \in Range(f.header) |->
                     LET j == CHOOSE k \in 1..Len(f.header) : f.header[k] = c
                     IN  ValueOf(f.rows[i][j], InferDtype(CellsOf(f, j)))]]]

\* pd.DataFrame([new_row], columns=CSV_HEADER): the named columns, NaN where
\* the dictionary has no such key
FrameOfRow(row, columns) ==
    [columns |-> columns,
     rows |-> <<[c \in Range(columns) |-> IF c \in DOMAIN row THEN row[c] ELSE NaN]>>]

\* the dtype of a column of a frame
DtypeOf(values) ==
    IF \A v \in values : v[1] = "int" THEN "int64"
    ELSE IF \A v \in values : v[1] \in {"int", "float", "nan"} THEN "float64"
    ELSE "object"

\* the value v in a column of the given dtype
Cast(v, dtype) ==
    IF dtype = "float64" /\ v[1] = "int" THEN PyFloat(10 * v[2]) ELSE v

\* pd.concat([df, pd.DataFrame([new_row])], ignore_index=True): the union of
\* the columns, df's first; NaN where a frame lacks a column; a column that is
\* numeric in both frames takes their common dtype
Concat(df, row, keys) ==
    LET extra == SelectSeq(keys, LAMBDA k : k \notin Range(df.columns))
        columns == df.columns \o extra
        one == [c \in Range(keys) |-> row[c]]
        left(c) == IF c \in Range(df.columns)
                   THEN DtypeOf({df.rows[i][c] : i \in 1..Len(df.rows)})
                   ELSE "float64"
        right(c) == IF c \in Range(keys) THEN DtypeOf({one[c]}) ELSE "float64"
        dtype(c) == IF left(c) = "object" \/ right(c) = "object" THEN "object"
                    ELSE IF left(c) = "int64" /\ right(c) = "int64" THEN "int64"
                    ELSE "float64"
        wide(r, have) == [c \in Range(columns) |->
                             IF c \in have THEN Cast(r[c], dtype(c)) ELSE NaN]
    IN  [columns |-> columns,
         rows |-> [i \in 1..Len(df.rows) |-> wide(df.rows[i], Range(df.columns))]
                      \o <<wide(one, Range(keys))>>]

\* the file df.to_csv(csv_path, index=False) leaves
ToCsv(df) ==
    [exists |-> TRUE,
     header |-> df.columns,
     rows |-> [i \in 1..Len(df.rows) |->
                 [j \in 1..Len(df.columns) |-> CellOf(df.rows[i][df.columns[j]])]]]

\* line 81: the whole table replaces what the file holds
WriteBack(f, df) == ToCsv(df)

\* evaluations.csv before the first write: no such file
NoFile == [exists |-> FALSE, header |-> <<>>, rows |-> <<>>]

\* csv_path.exists() and csv_path.stat().st_size > 0
HasContent(f) == f.exists /\ (f.header # <<>> \/ f.rows # <<>>)

\* evaluations.csv created and nothing written to it
EmptyFile == [exists |-> TRUE, header |-> <<>>, rows |-> <<>>]

\* lines 53-67: the dictionary new_row, from the 13 values in the order of
\* the keys
NewRow(values) ==
    [k \in Range(NewRowKeys) |->
        values[CHOOSE j \in 1..Len(NewRowKeys) : NewRowKeys[j] = k]]

\* the frame built as if the file were never there
FrameToSaveFresh(f, row) == FrameOfRow(row, CSV_HEADER)

\* lines 72-78: the frame log_evaluation builds from the file and new_row
FrameToSave(f, row) ==
    IF HasContent(f) THEN Concat(ReadCsv(f), row, NewRowKeys)
    ELSE FrameOfRow(row, CSV_HEADER)

\* lines 91-96: get_evaluation_history
HistoryOf(f) ==
    IF HasContent(f) THEN ReadCsv(f)
    ELSE [columns |-> CSV_HEADER, rows |-> <<>>]

(***************************************************************************)
(* Values the variables of the other specifications keep while one         *)
(* specification runs.                                                     *)
(***************************************************************************)
JudgeIdle ==
    /\ pc = "idle" /\ args = <<>> /\ prompt = <<>>
    /\ backend = <<>> /\ raised = <<>> /\ result = <<>>

LogIdle ==
    /\ file = NoFile /\ appended = <<>> /\ clock = 0
    /\ proc = <<>> /\ trace = <<>> /\ history = <<>>

ExtractIdle == text = <<>> /\ got = <<>>

judgeVars == <<pc, args, prompt, backend, raised, result>>
logVars == <<file, appended, clock, proc, trace, history>>
extractVars == <<text, got>>

(***************************************************************************)
(* SpecExtract: the extractors applied to every response text.             *)
(***************************************************************************)
InitExtract ==
    /\ text \in Texts
    /\ got = <<>>
    /\ JudgeIdle
    /\ LogIdle

\* lines 102-108: the five extractors applied to the same text
ApplyExtractors ==
    /\ got = <<>>
    /\ got' = <<Scores(text)>>
    /\ UNCHANGED <<text, judgeVars, logVars>>

NextExtract == ApplyExtractors

SpecExtract == InitExtract /\ [][NextExtract]_vars

(***************************************************************************)
(* SpecRating: the same on longer texts made of the lines extract_rating   *)
(* looks for.                                                              *)
(***************************************************************************)
InitRating ==
    /\ text \in RatingTexts
    /\ got = <<>>
    /\ JudgeIdle
    /\ LogIdle

SpecRating == InitRating /\ [][NextExtract]_vars

(***************************************************************************)
(* The arguments log_evaluation is called with.                            *)
(***************************************************************************)
LogAnswers == {PyStr("4"), PyStr("Nine"), PyStr("")}
LogTotals == {PyNone, PyInt(7)}
LogRelevances == {PyNone, PyInt(10)}

RowFor(n, answer, total_rating, relevance_score) ==
    NewRow(<<PyStr(Stamp(n)), PyStr("gemini-2.5-flash"), PyFloat(5),
             PyStr("What is 2+2?"), answer, PyStr("Looks right."),
             PyStr("You are an expert evaluator ..."), total_rating, PyStr("Valid"),
             relevance_score, PyNone, PyNone, PyNone>>)

(***************************************************************************)
(* SpecLog: log_evaluation and get_evaluation_history called one after the *)
(* other, from an absent or an empty file.                                 *)
(***************************************************************************)
InitLog ==
    /\ file \in {NoFile, EmptyFile}
    /\ appended = <<>>
    /\ clock = 0
    /\ proc = <<>>
    /\ trace = <<>>
    /\ history = <<>>
    /\ JudgeIdle
    /\ ExtractIdle

\* log_evaluation, whole
LogEvaluation(answer, total_rating, relevance_score) ==
    /\ Len(appended) < MaxLogs
    /\ LET row == RowFor(clock + 1, answer, total_rating, relevance_score)
       IN  /\ file' = WriteBack(file, FrameToSave(file, row))
           /\ appended' = Append(appended, row)
    /\ clock' = clock + 1
    /\ history' = <<>>
    /\ UNCHANGED <<proc, trace, judgeVars, extractVars>>

\* get_evaluation_history, whole
GetEvaluationHistory ==
    /\ history = <<>>
    /\ history' = <<HistoryOf(file)>>
    /\ UNCHANGED <<file, appended, clock, proc, trace, judgeVars, extractVars>>

NextLog ==
    \/ \E a \in LogAnswers, t \in LogTotals, r \in LogRelevances :
          LogEvaluation(a, t, r)
    \/ GetEvaluationHistory

SpecLog == InitLog /\ [][NextLog]_vars

(***************************************************************************)
(* SpecRace: two processes, each calling log_evaluation once, with no      *)
(* lock on the file.  A call is three accesses: the size test and the read *)
(* (lines 72-78), the open that truncates, and the write (line 81).        *)
(***************************************************************************)
Procs == {1, 2}

\* a log that already holds one record
OldRow == RowFor(0, PyStr("Nine"), PyInt(7), PyNone)
OneRowFile == ToCsv(FrameOfRow(OldRow, CSV_HEADER))

InitRace ==
    /\ \/ file = NoFile /\ appended = <<>>
       \/ file = OneRowFile /\ appended = <<OldRow>>
    /\ clock = 0
    /\ proc = [p \in Procs |-> [at |-> "idle", row |-> <<>>, df |-> <<>>]]
    /\ trace = <<>>
    /\ history = <<>>
    /\ JudgeIdle
    /\ ExtractIdle

\* lines 50-78 in process p
ReadAndBuild(p, answer, total_rating, relevance_score) ==
    /\ proc[p].at = "idle"
    /\ LET row == RowFor(clock + 1, answer, total_rating, relevance_score)
       IN  /\ proc' = [proc EXCEPT ![p] = [at |-> "open", row |-> <<row>>,
                                           df |-> <<FrameToSave(file, row)>>]]
           /\ appended' = Append(appended, row)
    /\ clock' = clock + 1
    /\ trace' = Append(trace, <<"read", p>>)
    /\ UNCHANGED <<file, history, judgeVars, extractVars>>

\* line 81 in process p: to_csv opens the file for writing, which empties it
OpenForWriting(p) ==
    /\ proc[p].at = "open"
    /\ file' = EmptyFile
    /\ proc' = [proc EXCEPT ![p].at = "write"]
    /\ trace' = Append(trace, <<"open", p>>)
    /\ UNCHANGED <<appended, clock, history, judgeVars, extractVars>>

\* line 81 in process p: the table is written and the file closed
WriteAndClose(p) ==
    /\ proc[p].at = "write"
    /\ file' = WriteBack(file, proc[p].df[1])
    /\ proc' = [proc EXCEPT ![p].at = "done"]
    /\ trace' = Append(trace, <<"write", p>>)
    /\ UNCHANGED <<appended, clock, history, judgeVars, extractVars>>

NextRace ==
    \E p \in Procs :
        \/ \E a \in LogAnswers, t \in LogTotals, r \in LogRelevances :
              ReadAndBuild(p, a, t, r)
        \/ OpenForWriting(p)
        \/ WriteAndClose(p)

SpecRace == InitRace /\ [][NextRace]_vars

(***************************************************************************)
(* SpecJudge: evaluate_with_gemini, one step per statement that can raise. *)
(***************************************************************************)
Questions == {"What is 2+2?", "Name a prime."}
Answers == {"4", "Nine"}
ModelNames == {"gemini-2.5-flash"}
Temperatures == {"0.5"}

\* what the constructor, generate_content and response.text raise
Exceptions == {"PermissionDenied", "ValueError"}

\* EVALUATION_PROMPT.format(question=question, answer=answer)
Render(question, answer) ==
    <<"You are an expert evaluator ... **Context/Question:** ---",
      question,
      "--- **Answer:** ---",
      answer,
      "--- Please evaluate ... **Total Score:** [The average of all scores, from 1 to 10]">>

\* a handler for ValueError alone
CatchesValueError(e) == e = "ValueError"

\* except Exception: every exception of the backend is an Exception
Catches(e) == e \in Exceptions

\* the dictionary of lines 115-118
AllNone ==
    [total |-> None, relevance |-> None, clarity |-> None,
     consistency |-> None, creativity |-> None]

\* raise e inside the try block
Raise(e) ==
    /\ raised' = <<e>>
    /\ pc' = IF Catches(e) THEN "except" ELSE "propagated"

InitJudge == JudgeIdle /\ ExtractIdle /\ LogIdle

\* the call, and line 86.  Every variable of the invocation is set afresh, so
\* the states reached do not depend on which earlier outcome a call follows;
\* a call is taken at the start and after a failed evaluation.
Invoke(question, answer, model_name, temperature) ==
    /\ pc = "idle" \/ (pc = "returned" /\ raised # <<>>)
    /\ args' = <<question, answer, model_name, temperature>>
    /\ prompt' = Render(question, answer)
    /\ backend' = <<>>
    /\ raised' = <<>>
    /\ result' = <<>>
    /\ pc' = "construct"
    /\ UNCHANGED <<extractVars, logVars>>

\* lines 89-93: genai.GenerativeModel(...)
ConstructModel ==
    /\ pc = "construct"
    /\ \/ pc' = "generate" /\ UNCHANGED raised
       \/ \E e \in Exceptions : Raise(e)
    /\ UNCHANGED <<args, prompt, backend, result, extractVars, logVars>>

\* line 96: model.generate_content(prompt), the outbound call
GenerateContent ==
    /\ pc = "generate"
    /\ backend' = Append(backend,
                         [model |-> args[3], temperature |-> args[4], body |-> prompt])
    /\ \/ pc' = "text" /\ UNCHANGED raised
       \/ \E e \in Exceptions : Raise(e)
    /\ UNCHANGED <<args, prompt, result, extractVars, logVars>>

\* lines 99-110: response.text, the five extractors, the return
ReadTextAndParse ==
    /\ pc = "text"
    /\ \/ \E feedback_text \in Texts :
             /\ result' = <<feedback_text, Scores(feedback_text), prompt>>
             /\ pc' = "returned"
             /\ UNCHANGED raised
       \/ \E e \in Exceptions : Raise(e) /\ UNCHANGED result
    /\ UNCHANGED <<args, prompt, backend, extractVars, logVars>>

\* a handler that calls the backend again
HandleExceptionRetry ==
    /\ pc = "except"
    /\ pc' = "generate"
    /\ UNCHANGED <<args, prompt, backend, raised, result, extractVars, logVars>>

\* lines 112-118: the except clause
HandleException ==
    /\ pc = "except"
    /\ result' = <<<<"Error during evaluation: ", raised[1]>>,
                   AllNone,
                   Render(args[1], args[2])>>
    /\ pc' = "returned"
    /\ UNCHANGED <<args, prompt, backend, raised, extractVars, logVars>>

NextJudge ==
    \/ \E q \in Questions, a \in Answers, m \in ModelNames, t \in Temperatures :
          Invoke(q, a, m, t)
    \/ ConstructModel
    \/ GenerateContent
    \/ ReadTextAndParse
    \/ HandleException

SpecJudge == InitJudge /\ [][NextJudge]_vars

(***************************************************************************)
(* Reading a text the way the claims describe it.                          *)
(***************************************************************************)
\* the number written at position c: one or two digits and no third
WrittenAt(t, c) ==
    IF c > Len(t) \/ t[c] \notin Digits THEN -1
    ELSE IF c + 1 <= Len(t) /\ t[c + 1] \in Digits
         THEN IF c + 2 <= Len(t) /\ t[c + 2] \in Digits THEN -1
              ELSE 10 * DigitVal(t[c]) + DigitVal(t[c + 1])
         ELSE DigitVal(t[c])

\* "<label>: n" is written at position i of t; -1 where it is not
LabelColonNumber(t, i, lab) ==
    IF /\ i + Len(lab) + 1 <= Len(t)
       /\ SubSeq(t, i, i + Len(lab) - 1) = lab
       /\ t[i + Len(lab)] = ":"
       /\ t[i + Len(lab) + 1] = " "
    THEN WrittenAt(t, i + Len(lab) + 2)
    ELSE -1

Valid(n) == n \in 1..10

Returned == got # <<>>

(***************************************************************************)
(* C2 as stated: whenever the text contains "Total Score: n" with n in     *)
(* 1..10 and "Rating: m" elsewhere, extract_rating returns n.              *)
(***************************************************************************)
\* C2 as stated: any "Total Score: n" with n in 1..10 beside a "Rating: m" makes extract_rating return n
C2_AnyTotalScoreWins ==
    Returned =>
        \A i, j \in 1..Len(text) :
            (/\ Valid(LabelColonNumber(text, i, LabelTotalScore))
             /\ LabelColonNumber(text, j, LabelRating) >= 0)
            => got[1].total = Some(LabelColonNumber(text, i, LabelTotalScore))

(***************************************************************************)
(* C2 amended: when the first "Total Score" label that a number follows is *)
(* followed by n in 1..10, extract_rating returns n, whatever "Rating: m"  *)
(* the text holds before or after it.                                      *)
(***************************************************************************)
\* the positions where "Total Score", separators and then a digit are written
NumberedTotalScore(t) ==
    {i \in 1..Len(t) :
        /\ i + 2 <= Len(t)
        /\ SubSeq(t, i, i + 2) = LabelTotalScore
        /\ \E c \in (i + 3)..Len(t) :
              /\ t[c] \in Digits
              /\ \A k \in (i + 3)..(c - 1) : t[k] \in {":", " ", "\n", "*"}}

\* the number that follows the label at position i
NumberAfter(t, i) ==
    LET c == CHOOSE d \in (i + 3)..Len(t) :
                 t[d] \in Digits /\ \A k \in (i + 3)..(d - 1) : t[k] \notin Digits
    IN  IF c + 1 <= Len(t) /\ t[c + 1] \in Digits
        THEN 10 * DigitVal(t[c]) + DigitVal(t[c + 1])
        ELSE DigitVal(t[c])

FirstTotalScoreNumber(t) ==
    LET hits == NumberedTotalScore(t)
    IN  IF hits = {} THEN -1
        ELSE NumberAfter(t, CHOOSE i \in hits : \A k \in hits : i <= k)

\* C2 amended: when the first numbered "Total Score" carries n in 1..10, extract_rating returns n
C2_FirstTotalScoreWins ==
    Returned =>
        (Valid(FirstTotalScoreNumber(text))
            => got[1].total = Some(FirstTotalScoreNumber(text)))

\* C2 witness: a text with "Rating: 3" before "Total Score: 7": 7 was returned
C2_Witness ==
    /\ Returned
    /\ LabelColonNumber(text, 1, LabelRating) = 3
    /\ \E i \in 2..Len(text) : LabelColonNumber(text, i, LabelTotalScore) = 7
    /\ FirstTotalScoreNumber(text) = 7
    /\ got[1].total = Some(7)

(***************************************************************************)
(* C3 as stated: for every extractor, a number captured outside 1..10      *)
(* after the matched label leaves the field absent; for extract_rating     *)
(* the matched label is the first synonym of the list that matches, and    *)
(* this holds whatever else the text contains.                             *)
(***************************************************************************)
\* what re.search captured for the first synonym of the list that matches
FirstSynonymCapture(t) ==
    LET ks == {k \in 1..4 :
                  Search(<<PatTotalScore, PatTotalRating, PatRating, PatScore>>[k], t)
                      # None}
    IN  IF ks = {} THEN None
        ELSE Search(<<PatTotalScore, PatTotalRating, PatRating, PatScore>>
                        [CHOOSE k \in ks : \A j \in ks : k <= j], t)

OutOfRangeCapture(m) == m # None /\ ~Valid(m[1])

C3_DimensionsRangePolicy ==
    /\ OutOfRangeCapture(Search(PatRelevance, text)) => got[1].relevance = None
    /\ OutOfRangeCapture(Search(PatClarity, text)) => got[1].clarity = None
    /\ OutOfRangeCapture(Search(PatConsistency, text)) => got[1].consistency = None
    /\ OutOfRangeCapture(Search(PatCreativity, text)) => got[1].creativity = None

\* C3 as stated: a capture outside 1..10 leaves the field absent, for extract_rating whatever else the text holds
C3_OutOfRangeIsAbsent ==
    Returned =>
        /\ C3_DimensionsRangePolicy
        /\ OutOfRangeCapture(FirstSynonymCapture(text)) => got[1].total = None

(***************************************************************************)
(* C3 amended: the per-dimension extractors report a capture outside 1..10 *)
(* as absent.  extract_rating never returns or clamps such a capture, but  *)
(* goes on to the remaining synonyms: it returns the first capture in      *)
(* 1..10 in the order Total Score, Total Rating, Rating, Score, and absent *)
(* only when no synonym's leftmost match captures a number in 1..10.       *)
(***************************************************************************)
SynonymCaptures(t) ==
    [k \in 1..4 |->
        Search(<<PatTotalScore, PatTotalRating, PatRating, PatScore>>[k], t)]

\* C3 amended: the dimensions report a capture outside 1..10 as absent; extract_rating returns the first capture in 1..10 of its list, absent when there is none
C3_RangePolicy ==
    Returned =>
        /\ C3_DimensionsRangePolicy
        /\ LET caps == SynonymCaptures(text)
               good == {k \in 1..4 : caps[k] # None /\ Valid(caps[k][1])}
           IN  /\ good = {} => got[1].total = None
               /\ good # {} =>
                     got[1].total = caps[CHOOSE k \in good : \A j \in good : k <= j]

\* C3 witness: "Total Score: 15" and "Relevance Score: 0": both fields absent
C3_Witness ==
    /\ Returned
    /\ text = LabelTotalScore \o <<":", " ", "1", "5">> \o <<"\n">>
                  \o LabelRelevance \o <<":", " ", "0">>
    /\ got[1].total = None
    /\ got[1].relevance = None

(***************************************************************************)
(* C9 as stated: a text that is one label, its colon, a line break and     *)
(* the number (no other label present) leaves the label's field absent.    *)
(***************************************************************************)
BreakTail == <<":", "\n", "7">>

\* C9 as stated: a number on the line after its label is not extracted
C9_LineBreakIsAbsent ==
    Returned =>
        /\ text \in {l \o BreakTail : l \in TotalLabels} => got[1].total = None
        /\ text = LabelRelevance \o BreakTail => got[1].relevance = None
        /\ text = LabelClarity \o BreakTail => got[1].clarity = None
        /\ text = LabelConsistency \o BreakTail => got[1].consistency = None
        /\ text \in {LabelCreativity \o BreakTail,
                     LabelCreativityInnovation \o BreakTail}
              => got[1].creativity = None

(***************************************************************************)
(* C9 amended: a line break between the label (with its colon and          *)
(* emphasis characters) and the number is whitespace to every pattern:     *)
(* each extractor returns what it returns when a space stands in place of  *)
(* the line break, so "Total Score:" with 7 on the next line yields 7.     *)
(***************************************************************************)
SpacesForBreaks(t) == [i \in 1..Len(t) |-> IF t[i] = "\n" THEN " " ELSE t[i]]

\* C9 amended: a line break between label and number counts as the space it replaces, so the number is extracted
C9_LineBreakIsWhitespace ==
    Returned =>
        /\ got[1] = Scores(SpacesForBreaks(text))
        /\ text \in {l \o BreakTail : l \in TotalLabels} => got[1].total = Some(7)
        /\ text = LabelRelevance \o BreakTail => got[1].relevance = Some(7)
        /\ text = LabelClarity \o BreakTail => got[1].clarity = Some(7)
        /\ text = LabelConsistency \o BreakTail => got[1].consistency = Some(7)
        /\ text \in {LabelCreativity \o BreakTail,
                     LabelCreativityInnovation \o BreakTail}
              => got[1].creativity = Some(7)

\* C9 witness: "Total Score:", a line break and 7: the total returned is 7
C9_Witness ==
    /\ Returned
    /\ text = LabelTotalScore \o BreakTail
    /\ got[1].total = Some(7)

(***************************************************************************)
(* C10 as stated: when Total Score, Total Rating and Rating give no value  *)
(* in 1..10 and the text has per-dimension score lines (the first of them  *)
(* with a number in 1..10), the total returned is the number of the first  *)
(* per-dimension score line, not absent.                                   *)
(***************************************************************************)
\* the positions where a label of labs, separators of seps and then a digit
\* are written
Numbered(t, labs, seps) ==
    {i \in 1..Len(t) :
        \E lab \in labs :
            /\ i + Len(lab) - 1 <= Len(t)
            /\ \A k \in 1..Len(lab) : Fold(t[i + k - 1]) = Fold(lab[k])
            /\ \E c \in (i + Len(lab))..Len(t) :
                  /\ t[c] \in Digits
                  /\ \A k \in (i + Len(lab))..(c - 1) : t[k] \in seps}

\* the number that follows position i
NextNumber(t, i) ==
    LET c == CHOOSE d \in i..Len(t) :
                 t[d] \in Digits /\ \A k \in i..(d - 1) : t[k] \notin Digits
    IN  IF c + 1 <= Len(t) /\ t[c + 1] \in Digits
        THEN 10 * DigitVal(t[c]) + DigitVal(t[c + 1])
        ELSE DigitVal(t[c])

\* the number of the first numbered line among labs; -1 when there is none
FirstNumber(t, labs, seps) ==
    LET hits == Numbered(t, labs, seps)
    IN  IF hits = {} THEN -1
        ELSE NextNumber(t, CHOOSE i \in hits : \A k \in hits : i <= k)

ColonSeps == {":", " ", "\n", "*"}
DashSeps == ColonSeps \cup {"-"}

\* Total Score, Total Rating and Rating give no value in 1..10
NoUsableTotal(t) ==
    \A lab \in TotalLabels : ~Valid(FirstNumber(t, {lab}, ColonSeps))

\* C10 as stated: without a usable total, the total returned is the number of the first per-dimension score line
C10_FirstDimensionLine ==
    Returned =>
        ((NoUsableTotal(text) /\ Valid(FirstNumber(text, DimLabels, DashSeps)))
            => got[1].total = Some(FirstNumber(text, DimLabels, DashSeps)))

(***************************************************************************)
(* C10 amended: when Total Score, Total Rating and Rating give no value in *)
(* 1..10, the total returned is the number after the first "Score" that    *)
(* colons, whitespace and asterisks (no dash) separate from a number, if   *)
(* that number is in 1..10, and absent otherwise.  For a response whose    *)
(* first such line is a per-dimension line ("Relevance Score: 7") with no  *)
(* usable total line, that is the per-dimension number, not absent.        *)
(***************************************************************************)
\* C10 amended: without a usable total, the total returned is the number after the first "Score" that colons, whitespace and asterisks separate from a number, when in 1..10, and absent otherwise
C10_BareScoreFallback ==
    Returned =>
        (NoUsableTotal(text) =>
            LET n == FirstNumber(text, {<<"Score">>}, ColonSeps)
            IN  got[1].total = IF Valid(n) THEN Some(n) ELSE None)

\* C10 witness: "Total Rating: 15" and then "Relevance Score: 7": the total is 7
C10_Witness ==
    /\ Returned
    /\ text = LabelTotalRating \o <<":", " ", "1", "5">> \o <<"\n">>
                  \o LabelRelevance \o <<":", " ", "7">>
    /\ NoUsableTotal(text)
    /\ got[1].total = Some(7)
    /\ got[1].relevance = Some(7)

(***************************************************************************)
(* C1: when the constructor, generate_content or response.text raises,     *)
(* evaluate_with_gemini does not raise; it returns the feedback "Error     *)
(* during evaluation: " followed by the cause, five absent scores, and the *)
(* prompt rendered from the same question and answer.                      *)
(***************************************************************************)
\* C1: a raising backend call ends in the error 3-tuple, never in an exception leaving evaluate_with_gemini
C1_FailureIsData ==
    /\ pc # "propagated"
    /\ (pc = "returned" /\ raised # <<>>) =>
          /\ Len(result) = 3
          /\ result[1][1] = "Error during evaluation: "
          /\ result[1][2] = raised[1]
          /\ \A f \in Fields : result[2][f] = <<>>
          /\ DOMAIN result[2] = Fields
          /\ result[3] = <<"You are an expert evaluator ... **Context/Question:** ---",
                           args[1],
                           "--- **Answer:** ---",
                           args[2],
                           "--- Please evaluate ... **Total Score:** [The average of all scores, from 1 to 10]">>

\* C1 witness: generate_content raised PermissionDenied and the error result came back
C1_Witness ==
    /\ pc = "returned"
    /\ raised = <<"PermissionDenied">>
    /\ Len(backend) = 1
    /\ result[1] = <<"Error during evaluation: ", "PermissionDenied">>
    /\ args[1] = "What is 2+2?" /\ args[2] = "Nine"

(***************************************************************************)
(* C7: in every result returned by evaluate_with_gemini, on the success    *)
(* path and on the failure path, each of the five score fields is absent   *)
(* or an integer in 1..10.                                                 *)
(***************************************************************************)
\* C7: every returned score field is absent or an integer in 1..10
C7_ScoreSetInvariant ==
    pc = "returned" =>
        /\ DOMAIN result[2] = Fields
        /\ \A f \in Fields :
              \/ result[2][f] = <<>>
              \/ Len(result[2][f]) = 1 /\ result[2][f][1] \in 1..10

\* C7 witness: a success whose text holds "Total Score: 15" and ":** 10" for relevance
C7_Witness ==
    /\ pc = "returned"
    /\ raised = <<>>
    /\ result[1] = LabelTotalScore \o <<":", " ", "1", "5">> \o <<"\n">>
                       \o LabelRelevance \o <<":", "*", "*", " ", "1", "0">>
    /\ result[2].relevance = <<10>>
    /\ result[2].clarity = <<>>

(***************************************************************************)
(* C8: an invocation makes at most one backend call, whose body is the     *)
(* rendered prompt; after a failure the evaluation ends with the error     *)
(* result and the backend is not called again.                             *)
(***************************************************************************)
\* C8: at most one backend call per invocation, carrying the rendered prompt, and none after a failure
C8_SingleAttempt ==
    /\ Len(backend) <= 1
    /\ Len(backend) = 1 =>
          /\ args # <<>>
          /\ backend[1].body = Render(args[1], args[2])
          /\ backend[1].model = args[3]
          /\ backend[1].temperature = args[4]
    /\ pc \in {"idle", "construct", "generate"} => backend = <<>>
    /\ pc = "text" => Len(backend) = 1

\* C8 witness: generate_content raised, the evaluation ended, and one call had been made
C8_Witness ==
    /\ pc = "returned"
    /\ raised # <<>>
    /\ Len(backend) = 1
    /\ result[1][1] = "Error during evaluation: "

(***************************************************************************)
(* Comparing what was appended with what is read back.                     *)
(***************************************************************************)
\* the value in tenths of a number
Tenths(v) == IF v[1] = "int" THEN 10 * v[2] ELSE v[2]

\* the value read back is the value appended: both absent, the same string,
\* or the same number
SameValue(a, r) ==
    \/ a \in {<<"None">>, <<"nan">>} /\ r \in {<<"None">>, <<"nan">>}
    \/ a[1] = "str" /\ r = a
    \/ a[1] \in {"int", "float"} /\ r[1] \in {"int", "float"} /\ Tenths(a) = Tenths(r)

(***************************************************************************)
(* C4: after N sequential log_evaluation calls from an absent or empty     *)
(* file, get_evaluation_history returns N records in insertion order, each *)
(* field equal to what was appended, an absent score read back as absent.  *)
(***************************************************************************)
\* C4: the history read back holds the N records appended, in order, field by field
C4_RoundTrip ==
    history # <<>> =>
        /\ Len(history[1].rows) = Len(appended)
        /\ \A i \in 1..Len(appended) :
              \A c \in DOMAIN appended[i] :
                  /\ c \in DOMAIN history[1].rows[i]
                  /\ SameValue(appended[i][c], history[1].rows[i][c])

(***************************************************************************)
(* C6: from an absent or empty file, after any sequence of log_evaluation  *)
(* calls the file's header is the 13 CSV_HEADER columns in order and every *)
(* row has that many cells; get_evaluation_history over an absent or empty *)
(* file returns no rows under exactly those columns.                       *)
(***************************************************************************)
TheThirteenColumns ==
    <<"timestamp", "model", "temperature", "question", "answer", "judge_feedback",
      "judge_prompt", "total_rating(1-10)", "validation_status", "relevance_score",
      "clarity_score", "consistency_score", "creativity_score">>

\* C6: the file and the history keep exactly the 13 CSV_HEADER columns, in order
C6_FixedSchema ==
    /\ appended # <<>> =>
          /\ file.header = TheThirteenColumns
          /\ Len(file.rows) = Len(appended)
          /\ \A i \in 1..Len(file.rows) : Len(file.rows[i]) = Len(TheThirteenColumns)
    /\ history # <<>> =>
          /\ history[1].columns = TheThirteenColumns
          /\ \A i \in 1..Len(history[1].rows) :
                DOMAIN history[1].rows[i] = Range(TheThirteenColumns)
          /\ appended = <<>> => history[1].rows = <<>>

\* C6 witness: three records logged and the history read
C6_Witness ==
    /\ Len(appended) = 3
    /\ Len(file.rows) = 3
    /\ file.header = TheThirteenColumns
    /\ history # <<>>
    /\ Len(history[1].rows) = 3

(***************************************************************************)
(* C5: with two processes appending at once and no lock, when both read    *)
(* the file before either writes and both calls complete, the log holds    *)
(* what it held before and the later writer's record alone: the earlier    *)
(* writer's record is lost.                                                *)
(***************************************************************************)
AllDone == \A p \in Procs : proc[p].at = "done"

\* both reads come before any open or write
ReadsFirst == Len(trace) >= 2 /\ trace[1][1] = "read" /\ trace[2][1] = "read"

LaterWriter == trace[Len(trace)][2]
EarlierWriter == CHOOSE p \in Procs : p # LaterWriter

\* the cell holds the value: empty for an absent one, the string itself, or a
\* numeral of the same number
CellHolds(cell, v) ==
    CASE v[1] = "str" -> cell = v[2]
      [] v[1] \in {"int", "float"} ->
            (IsIntText(cell) \/ IsFloatText(cell)) /\ TenthsOf(cell) = Tenths(v)
      [] OTHER -> cell = ""

\* the cells are the record r, column by column
RowHolds(cells, r) ==
    /\ Len(cells) = Len(TheThirteenColumns)
    /\ \A j \in 1..Len(cells) : CellHolds(cells[j], r[TheThirteenColumns[j]])

\* C5: when both processes read before either writes, the log ends with the later writer's record and without the earlier writer's
C5_LaterWriteWins ==
    (proc # <<>> /\ AllDone /\ ReadsFirst) =>
        LET before == Len(appended) - 2
        IN  /\ Len(file.rows) = before + 1
            /\ RowHolds(file.rows[before + 1], proc[LaterWriter].row[1])
            /\ \A i \in 1..before : RowHolds(file.rows[i], appended[i])
            /\ \A i \in 1..Len(file.rows) :
                  ~RowHolds(file.rows[i], proc[EarlierWriter].row[1])

\* C5 witness: both read the one-row log, process 1 wrote, process 2 wrote
\* after it: the log holds the old record and process 2's, and not process 1's
C5_Witness ==
    /\ proc # <<>>
    /\ AllDone
    /\ ReadsFirst
    /\ LaterWriter = 2
    /\ Len(appended) = 3
    /\ Len(file.rows) = 2
    /\ RowHolds(file.rows[2], proc[2].row[1])
    /\ \A i \in 1..2 : ~RowHolds(file.rows[i], proc[1].row[1])

====
